---- MODULE Spec2Model ----
(***************************************************************************)
(* A model of the evaluator of my-first-lisp (src/src/eval.rs) and of the  *)
(* REPL loop that drives it (src/src/main.rs).                             *)
(*                                                                         *)
(* Expressions (ast::Expr) and values (eval::Value) are records with a     *)
(* "tag" field.  An environment (eval::Env) is the sequence of its frames, *)
(* innermost first: Env.data is the head, Env.outer the tail.  The outer   *)
(* link of a call frame is an Rc<RefCell<..>> around a *clone* of the      *)
(* caller's Env and is only ever read (Env::get), so a chain is a value.   *)
(*                                                                         *)
(* Env::eval and the builtins are recursive operators that return the      *)
(* result, the environment as the call left it, and the log of the eval    *)
(* and insert calls made (a history of what was evaluated, and where).     *)
(***************************************************************************)
EXTENDS Integers, Sequences, FiniteSets, TLC

VARIABLES env, before, tree, res, log, alive, steps

vars == <<env, before, tree, res, log, alive, steps>>

(***************************************************************************)
(* Bounds of the model.                                                    *)
(***************************************************************************)
\* REPL lines read in one session.
MaxSteps == 3
\* Integer values are modelled in -MaxInt..MaxInt, where i64 arithmetic is exact.
MaxInt == 9
\* Float values are modelled as n/d with d a power of two up to MaxDen
\* (exactly representable in f64), plus the infinities and NaN.
MaxDen == 2
\* Nesting of user-defined calls followed inside one evaluation.
MaxDepth == 3
\* Operands given to an arithmetic or comparison builtin.
MaxArgs == 3

(***************************************************************************)
(* ast::Expr                                                               *)
(***************************************************************************)
\* An f64 is <<sign, n, d>>: sign * n / d, with <<s,1,0>> the infinities,
\* <<1,0,0>> NaN and <<s,0,1>> the two zeros.
FNaN == <<1, 0, 0>>
FInf(s) == <<s, 1, 0>>
FZero(s) == <<s, 0, 1>>

EBool(b) == [tag |-> "Bool", b |-> b]
EInt(i) == [tag |-> "Integer", i |-> i]
EFloat(f) == [tag |-> "Float", f |-> f]
ESym(s) == [tag |-> "Symbol", name |-> s]
EList(items) == [tag |-> "List", items |-> items]

(***************************************************************************)
(* eval::Value and eval::Func                                              *)
(***************************************************************************)
VBool(b) == [tag |-> "Bool", b |-> b]
VInt(i) == [tag |-> "Integer", i |-> i]
VFloat(f) == [tag |-> "Float", f |-> f]

\* The bool, i64 or f64 a scalar Value holds, and the Value of type ty holding x.
Payload(v) ==
  CASE v.tag = "Bool" -> v.b
    [] v.tag = "Integer" -> v.i
    [] v.tag = "Float" -> v.f

Scalar(ty, x) ==
  CASE ty = "Bool" -> VBool(x)
    [] ty = "Integer" -> VInt(x)
    [] ty = "Float" -> VFloat(x)
BuiltIn(name, func) == [tag |-> "BuiltIn", name |-> name, func |-> func]
UserDefined(params, body) == [tag |-> "UserDefined", params |-> params, body |-> body]

(***************************************************************************)
(* Result<Rc<Value>, String>, plus the two ways an evaluation leaves the   *)
(* Result type: a panic of the Rust runtime, and a value outside the       *)
(* numeric range or call depth this model represents.                      *)
(***************************************************************************)
Ok(v) == [kind |-> "Ok", val |-> v]
Err(msg) == [kind |-> "Err", msg |-> msg]
Panic(msg) == [kind |-> "Panic", msg |-> msg]
OutOfRange == [kind |-> "OutOfRange"]

IsOk(r) == r.kind = "Ok"

(***************************************************************************)
(* i64 and f64 arithmetic (the $op of arithmetic_builtin!, == and <).      *)
(***************************************************************************)
Abs(n) == IF n < 0 THEN -n ELSE n
Sign(n) == IF n < 0 THEN -1 ELSE 1

RECURSIVE Gcd(_, _)
Gcd(a, b) == IF b = 0 THEN a ELSE Gcd(b, a % b)

IsPowerOfTwo(d) == \E k \in 0..MaxDen : 2^k = d

IntInRange(n) == Abs(n) <= MaxInt

\* Rust's i64 `/` truncates toward zero.
TruncDiv(a, b) == Sign(a) * Sign(b) * (Abs(a) \div Abs(b))

\* res $op value on i64.  Division by zero panics in every build profile.
\* Within -MaxInt..MaxInt no operator overflows; a result that leaves that
\* range is outside the model, and with it the overflows of i64 (a panic in
\* a debug build, a wrapped value in a release build, and a panic in both
\* for i64::MIN / -1).
IntOp(op, a, b) ==
  IF op = "/" /\ b = 0 THEN Panic("attempt to divide by zero")
  ELSE LET r == CASE op = "+" -> a + b
                  [] op = "-" -> a - b
                  [] op = "*" -> a * b
                  [] op = "/" -> TruncDiv(a, b)
       IN IF IntInRange(r) THEN Ok(VInt(r)) ELSE OutOfRange

FIsNaN(x) == x[2] = 0 /\ x[3] = 0
FIsInf(x) == x[2] # 0 /\ x[3] = 0
FIsZero(x) == x[2] = 0 /\ x[3] # 0

\* The f64 nearest to sign * n / d, for the n/d this model represents.
FNorm(s, n, d) ==
  IF d = 0 THEN (IF n = 0 THEN FNaN ELSE FInf(s))
  ELSE IF n = 0 THEN FZero(s)
  ELSE LET g == Gcd(n, d) IN <<s, n \div g, d \div g>>

FNeg(x) == IF FIsNaN(x) THEN FNaN ELSE <<-x[1], x[2], x[3]>>

FAdd(x, y) ==
  IF FIsNaN(x) \/ FIsNaN(y) THEN FNaN
  ELSE IF FIsInf(x) THEN (IF FIsInf(y) /\ x[1] # y[1] THEN FNaN ELSE x)
  ELSE IF FIsInf(y) THEN y
  ELSE LET a == x[1] * x[2] * y[3] + y[1] * y[2] * x[3]
       IN IF a = 0
          THEN FZero(IF x[1] = -1 /\ y[1] = -1 THEN -1 ELSE 1)
          ELSE FNorm(Sign(a), Abs(a), x[3] * y[3])

FSub(x, y) == FAdd(x, FNeg(y))

FMul(x, y) ==
  IF FIsNaN(x) \/ FIsNaN(y) THEN FNaN
  ELSE IF (FIsInf(x) /\ FIsZero(y)) \/ (FIsZero(x) /\ FIsInf(y)) THEN FNaN
  ELSE FNorm(x[1] * y[1], x[2] * y[2], x[3] * y[3])

FDiv(x, y) ==
  IF FIsNaN(x) \/ FIsNaN(y) THEN FNaN
  ELSE IF FIsInf(x) /\ FIsInf(y) THEN FNaN
  ELSE IF FIsInf(y) THEN FZero(x[1] * y[1])
  ELSE FNorm(x[1] * y[1], x[2] * y[3], x[3] * y[2])

\* f == g on f64: NaN equals nothing, the two zeros are equal.
FEq(x, y) ==
  /\ ~FIsNaN(x)
  /\ ~FIsNaN(y)
  /\ \/ x = y
     \/ FIsZero(x) /\ FIsZero(y)

\* f < g on f64.
FLt(x, y) ==
  /\ ~FIsNaN(x)
  /\ ~FIsNaN(y)
  /\ ~FEq(x, y)
  /\ IF FIsInf(x) THEN x[1] = -1
     ELSE IF FIsInf(y) THEN y[1] = 1
     ELSE x[1] * x[2] * y[3] < y[1] * y[2] * x[3]

FloatInRange(x) ==
  \/ x[3] = 0
  \/ /\ IsPowerOfTwo(x[3])
     /\ x[3] <= MaxDen
     /\ x[2] <= MaxInt * x[3]

FloatOp(op, x, y) ==
  LET r == CASE op = "+" -> FAdd(x, y)
             [] op = "-" -> FSub(x, y)
             [] op = "*" -> FMul(x, y)
             [] op = "/" -> FDiv(x, y)
  IN IF FloatInRange(r) THEN Ok(VFloat(r)) ELSE OutOfRange

(***************************************************************************)
(* eval::Env                                                               *)
(***************************************************************************)
\* An empty HashMap: the function with the empty domain.
EmptyData == [s \in {} |-> VInt(0)]

\* Env::insert on the head frame (self.data.insert).
Insert(e, key, value) ==
  <<[s \in (DOMAIN e[1]) \cup {key} |-> IF s = key THEN value ELSE e[1][s]]>> \o Tail(e)

\* Env::get: this frame's data, else the outer frame's, else None.
HasKey(e, key) == \E i \in 1..Len(e) : key \in DOMAIN e[i]

Get(e, key) ==
  LET i == CHOOSE j \in 1..Len(e) :
             /\ key \in DOMAIN e[j]
             /\ \A k \in 1..(j - 1) : key \notin DOMAIN e[k]
  IN e[i][key]

\* The registry Env::default installs, by symbol: the tag and the native fn.
Builtins ==
  [s \in {"def", "fn", "if", "=", "+", "-", "*", "/", "<"} |->
     CASE s = "def" -> BuiltIn("def", "def")
       [] s = "fn" -> BuiltIn("fn", "func")
       [] s = "if" -> BuiltIn("if", "ifdef")
       [] s = "=" -> BuiltIn("equals", "equals")
       [] s = "+" -> BuiltIn("addition", "addition")
       [] s = "-" -> BuiltIn("subtraction", "subtraction")
       [] s = "*" -> BuiltIn("multiplication", "multiplication")
       [] s = "/" -> BuiltIn("division", "division")
       [] s = "<" -> BuiltIn("less_than", "less_than")]

\* Env::default
EnvDefault == <<Builtins>>

\* The operator a native arithmetic fn was instantiated with.
ArithOp(func) ==
  CASE func = "addition" -> "+"
    [] func = "subtraction" -> "-"
    [] func = "multiplication" -> "*"
    [] func = "division" -> "/"

(***************************************************************************)
(* What an evaluation hands back: the Result, the Env it was run on as the *)
(* call left it (eval takes &mut self), and the log of the calls made.     *)
(***************************************************************************)
Out(r, e, l) == [res |-> r, env |-> e, log |-> l]

\* Log entries: a call of Env::eval on expression e in a frame at call
\* depth d, and a call of Env::insert on a frame at call depth d.
EvEval(d, e) == [k |-> "eval", d |-> d, e |-> e]
EvInsert(d, sym, val) == [k |-> "insert", d |-> d, sym |-> sym, val |-> val]

RECURSIVE Eval(_, _, _)
RECURSIVE BindParams(_, _, _, _, _, _, _)
RECURSIVE ArithLoop(_, _, _, _, _, _, _)
RECURSIVE EqualsLoop(_, _, _, _, _, _)

\* A variant of func that rejects a parameter list with an entry that is
\* not a bare symbol.
Func_CheckedParams(e, args, d) ==
  IF Len(args) # 2 THEN Out(Err("'fn' takes 2 arguments only"), e, <<>>)
  ELSE IF args[1].tag # "List" THEN Out(Err("..."), e, <<>>)
  ELSE IF \E i \in 1..Len(args[1].items) : args[1].items[i].tag # "Symbol"
  THEN Out(Err("..."), e, <<>>)
  ELSE Out(Ok(UserDefined(args[1].items, args[2])), e, <<>>)

\* fn func (the `fn` builtin), eval.rs 133-145.
Func(e, args, d) ==
  IF Len(args) # 2 THEN Out(Err("'fn' takes 2 arguments only"), e, <<>>)
  ELSE IF args[1].tag # "List" THEN Out(Err("..."), e, <<>>)
  ELSE Out(Ok(UserDefined(args[1].items, args[2])), e, <<>>)

\* A variant of ifdef that evaluates both branches before choosing one.
IfDef_EvalBoth(e, args, d) ==
  IF Len(args) # 3 THEN Out(Err("'if' takes 3 arguments"), e, <<>>)
  ELSE LET cond == Eval(args[1], e, d)
       IN IF ~IsOk(cond.res) THEN cond
          ELSE IF cond.res.val.tag = "Bool"
          THEN LET then == Eval(args[2], cond.env, d)
                   else == Eval(args[3], then.env, d)
               IN IF ~IsOk(then.res)
                  THEN Out(then.res, then.env, cond.log \o then.log)
                  ELSE IF ~IsOk(else.res)
                  THEN Out(else.res, else.env, cond.log \o then.log \o else.log)
                  ELSE Out(IF cond.res.val.b THEN then.res ELSE else.res, else.env,
                           cond.log \o then.log \o else.log)
          ELSE Out(Err("Condition in 'if' must evaluate to a boolean value"),
                   cond.env, cond.log)

\* fn ifdef (the `if` builtin), eval.rs 147-159.
IfDef(e, args, d) ==
  IF Len(args) # 3 THEN Out(Err("'if' takes 3 arguments"), e, <<>>)
  ELSE LET cond == Eval(args[1], e, d)
       IN IF ~IsOk(cond.res) THEN cond
          ELSE IF cond.res.val.tag = "Bool"
          THEN LET branch == Eval(IF cond.res.val.b THEN args[2] ELSE args[3],
                                  cond.env, d)
               IN Out(branch.res, branch.env, cond.log \o branch.log)
          ELSE Out(Err("Condition in 'if' must evaluate to a boolean value"),
                   cond.env, cond.log)

\* A variant of def that refuses to rebind a symbol of the builtin registry.
Def_Protected(e, args, d) ==
  IF Len(args) # 2 THEN Out(Err("'def' takes 2 arguments only"), e, <<>>)
  ELSE IF args[1].tag # "Symbol"
  THEN Out(Err("First argument to 'def' must be a symbol"), e, <<>>)
  ELSE IF args[1].name \in DOMAIN Builtins
  THEN Out(Err("Cannot redefine a builtin"), e, <<>>)
  ELSE LET value == Eval(args[2], e, d)
       IN IF ~IsOk(value.res) THEN value
          ELSE Out(Ok(VInt(0)),
                   Insert(value.env, args[1].name, value.res.val),
                   value.log \o <<EvInsert(d, args[1].name, value.res.val)>>)

\* fn def (the `def` builtin), eval.rs 161-173.
Def(e, args, d) ==
  IF Len(args) # 2 THEN Out(Err("'def' takes 2 arguments only"), e, <<>>)
  ELSE IF args[1].tag # "Symbol"
  THEN Out(Err("First argument to 'def' must be a symbol"), e, <<>>)
  ELSE LET value == Eval(args[2], e, d)
       IN IF ~IsOk(value.res) THEN value
          ELSE Out(Ok(VInt(0)),
                   Insert(value.env, args[1].name, value.res.val),
                   value.log \o <<EvInsert(d, args[1].name, value.res.val)>>)

\* The `for item in rest` loop of arithmetic_builtin!, eval.rs 183-190 and
\* 195-202: ty is the first value's type, acc is `res`.
ArithLoop(op, ty, acc, rest, e, lg, d) ==
  IF rest = <<>> THEN Out(Ok(Scalar(ty, acc)), e, lg)
  ELSE LET value == Eval(Head(rest), e, d)
       IN IF ~IsOk(value.res) THEN Out(value.res, value.env, lg \o value.log)
          ELSE IF value.res.val.tag # ty
          THEN Out(Err(IF ty = "Integer" THEN "Non-integer found in integer arithmetic"
                                         ELSE "Non-float found in float arithmetic"),
                   value.env, lg \o value.log)
          ELSE LET r == IF ty = "Integer" THEN IntOp(op, acc, Payload(value.res.val))
                                          ELSE FloatOp(op, acc, Payload(value.res.val))
               IN IF ~IsOk(r) THEN Out(r, value.env, lg \o value.log)
                  ELSE ArithLoop(op, ty, Payload(r.val), Tail(rest), value.env,
                                 lg \o value.log, d)

\* arithmetic_builtin!($name, $op): addition, subtraction, multiplication,
\* division; eval.rs 175-214.
Arithmetic(func, e, args, d) ==
  IF Len(args) = 0 THEN Out(Err("Cannot apply operator to zero arguments"), e, <<>>)
  ELSE LET first == Eval(Head(args), e, d)
       IN IF ~IsOk(first.res) THEN first
          ELSE IF first.res.val.tag \in {"Integer", "Float"}
          THEN ArithLoop(ArithOp(func), first.res.val.tag, Payload(first.res.val),
                         Tail(args), first.env, first.log, d)
          ELSE Out(Err("Must apply '+' to numeric types"), first.env, first.log)

\* b == c, i == j, f == g of fn equals.
ScalarEq(ty, a, b) == IF ty = "Float" THEN FEq(a, b) ELSE a = b

\* A variant of the loops of fn equals without the `if !res { break; }`.
EqualsLoop_NoBreak(ty, fst, rest, e, lg, d) ==
  IF rest = <<>> THEN Out(Ok(VBool(TRUE)), e, lg)
  ELSE LET value == Eval(Head(rest), e, d)
       IN IF ~IsOk(value.res) THEN Out(value.res, value.env, lg \o value.log)
          ELSE IF value.res.val.tag # ty
          THEN Out(Err(CASE ty = "Bool" -> "Non-boolean found in boolean equals"
                         [] ty = "Integer" -> "Non-integer found in integer equals"
                         [] ty = "Float" -> "Non-float found in float equals"),
                   value.env, lg \o value.log)
          ELSE LET others == EqualsLoop(ty, fst, Tail(rest), value.env,
                                        lg \o value.log, d)
               IN IF ~IsOk(others.res) THEN others
                  ELSE Out(Ok(VBool(/\ ScalarEq(ty, fst, Payload(value.res.val))
                                    /\ others.res.val.b)),
                           others.env, others.log)

\* The `for item in rest` loops of fn equals, eval.rs 225-232, 237-244 and
\* 249-256: `res` starts true, and the loop is left at the first false.
EqualsLoop(ty, fst, rest, e, lg, d) ==
  IF rest = <<>> THEN Out(Ok(VBool(TRUE)), e, lg)
  ELSE LET value == Eval(Head(rest), e, d)
       IN IF ~IsOk(value.res) THEN Out(value.res, value.env, lg \o value.log)
          ELSE IF value.res.val.tag # ty
          THEN Out(Err(CASE ty = "Bool" -> "Non-boolean found in boolean equals"
                         [] ty = "Integer" -> "Non-integer found in integer equals"
                         [] ty = "Float" -> "Non-float found in float equals"),
                   value.env, lg \o value.log)
          ELSE IF ~ScalarEq(ty, fst, Payload(value.res.val))
          THEN Out(Ok(VBool(FALSE)), value.env, lg \o value.log)
          ELSE EqualsLoop(ty, fst, Tail(rest), value.env, lg \o value.log, d)

\* fn equals (the `=` builtin), eval.rs 216-261.
Equals(e, args, d) ==
  IF Len(args) < 2
  THEN Out(Err("Cannot apply '=' to fewer than 2 arguments"), e, <<>>)
  ELSE LET first == Eval(Head(args), e, d)
       IN IF ~IsOk(first.res) THEN first
          ELSE IF first.res.val.tag \in {"Bool", "Integer", "Float"}
          THEN EqualsLoop(first.res.val.tag, Payload(first.res.val), Tail(args),
                          first.env, first.log, d)
          ELSE Out(Err("Must apply '=' to numeric or boolean types"),
                   first.env, first.log)

\* fn less_than (the `<` builtin), eval.rs 263-288.
LessThan(e, args, d) ==
  IF Len(args) < 2
  THEN Out(Err("Cannot apply '<' to fewer than 2 arguments"), e, <<>>)
  ELSE LET first == Eval(Head(args), e, d)
       IN IF ~IsOk(first.res) THEN first
          ELSE IF first.res.val.tag \in {"Integer", "Float"}
          THEN LET second == Eval(args[2], first.env, d)
                   ty == first.res.val.tag
               IN IF ~IsOk(second.res)
                  THEN Out(second.res, second.env, first.log \o second.log)
                  ELSE IF second.res.val.tag # ty
                  THEN Out(Err(IF ty = "Integer"
                               THEN "Cannot compare integer with non-integer"
                               ELSE "Cannot compare float with non-float"),
                           second.env, first.log \o second.log)
                  ELSE Out(Ok(VBool(IF ty = "Integer"
                                    THEN Payload(first.res.val) < Payload(second.res.val)
                                    ELSE FLt(Payload(first.res.val), Payload(second.res.val)))),
                           second.env, first.log \o second.log)
          ELSE Out(Err("Cannot use value for comparison"), first.env, first.log)

\* (*func)(self, &rest[..]): the native fn of a Func::BuiltIn, eval.rs 101-104.
ApplyBuiltIn(func, e, args, d) ==
  CASE func = "def" -> Def(e, args, d)
    [] func = "func" -> Func(e, args, d)
    [] func = "ifdef" -> IfDef(e, args, d)
    [] func = "equals" -> Equals(e, args, d)
    [] func = "less_than" -> LessThan(e, args, d)
    [] OTHER -> Arithmetic(func, e, args, d)

\* The outer link of a call frame, eval.rs 111: a clone of the Env the call
\* is evaluated in, taken before any argument is evaluated.  (The Env the
\* closure was created in is not stored in Func::UserDefined.)
FrameOuter(self) == self

\* The `for (param, arg)` loop of a user-defined call, eval.rs 113-122:
\* each argument is evaluated on self, and bound in new_env.data.
BindParams(params, rest, i, self, data, lg, d) ==
  IF i > Len(params) THEN [res |-> Ok(VInt(0)), env |-> self, data |-> data, log |-> lg]
  ELSE IF params[i].tag = "Symbol"
  THEN LET arg_val == Eval(rest[i], self, d)
       IN IF ~IsOk(arg_val.res)
          THEN [res |-> arg_val.res, env |-> arg_val.env, data |-> data,
                log |-> lg \o arg_val.log]
          ELSE BindParams(params, rest, i + 1, arg_val.env,
                          Insert(<<data>>, params[i].name, arg_val.res.val)[1],
                          lg \o arg_val.log
                             \o <<EvInsert(d + 1, params[i].name, arg_val.res.val)>>,
                          d)
  ELSE [res |-> Err("..."), env |-> self, data |-> data, log |-> lg]

\* A variant in which the bindings of the call frame end up in the caller's
\* own data, as if the body had been evaluated on self.
AfterCall_Leak(self, new_env) ==
  <<[s \in (DOMAIN self[1]) \cup (DOMAIN new_env[1]) |->
       IF s \in DOMAIN new_env[1] THEN new_env[1][s] ELSE self[1][s]]>> \o Tail(self)

\* The Env the caller is left with once the body has run on new_env:
\* new_env is a local of the call and is dropped.
AfterCall(self, new_env) == self

\* A variant of the call that checks the arity only after the zip loop
\* over parameters and arguments.
Call_LateArity(f, self, rest, d) ==
  LET n == IF Len(f.params) < Len(rest) THEN Len(f.params) ELSE Len(rest)
      outer == FrameOuter(self)
      bound == BindParams(SubSeq(f.params, 1, n), SubSeq(rest, 1, n), 1, self,
                          EmptyData, <<>>, d)
  IN IF ~IsOk(bound.res) THEN Out(bound.res, bound.env, bound.log)
     ELSE IF Len(f.params) # Len(rest)
     THEN Out(Err("Incorrect number of arguments provided"), bound.env, bound.log)
     ELSE IF d + 1 > MaxDepth THEN Out(OutOfRange, bound.env, bound.log)
     ELSE LET body == Eval(f.body, <<bound.data>> \o outer, d + 1)
          IN Out(body.res, AfterCall(bound.env, body.env), bound.log \o body.log)

\* The Func::UserDefined arm of Env::eval, eval.rs 105-124.
Call(f, self, rest, d) ==
  IF Len(f.params) # Len(rest)
  THEN Out(Err("Incorrect number of arguments provided"), self, <<>>)
  ELSE LET outer == FrameOuter(self)
           bound == BindParams(f.params, rest, 1, self, EmptyData, <<>>, d)
       IN IF ~IsOk(bound.res) THEN Out(bound.res, bound.env, bound.log)
          ELSE IF d + 1 > MaxDepth THEN Out(OutOfRange, bound.env, bound.log)
          ELSE LET body == Eval(f.body, <<bound.data>> \o outer, d + 1)
               IN Out(body.res, AfterCall(bound.env, body.env),
                      bound.log \o body.log)

\* Env::eval, eval.rs 87-130.
Eval(expr, e, d) ==
  LET here == <<EvEval(d, expr)>>
  IN CASE expr.tag = "Bool" -> Out(Ok(VBool(expr.b)), e, here)
       [] expr.tag = "Integer" -> Out(Ok(VInt(expr.i)), e, here)
       [] expr.tag = "Float" -> Out(Ok(VFloat(expr.f)), e, here)
       [] expr.tag = "Symbol" ->
            IF HasKey(e, expr.name) THEN Out(Ok(Get(e, expr.name)), e, here)
            ELSE Out(Err("Unknown symbol"), e, here)
       [] expr.tag = "List" ->
            IF expr.items = <<>> THEN Out(Err("List cannot be empty"), e, here)
            ELSE LET first == Head(expr.items)
                     rest == Tail(expr.items)
                     r == Eval(first, e, d)
                 IN IF ~IsOk(r.res) THEN Out(r.res, r.env, here \o r.log)
                    ELSE IF r.res.val.tag = "BuiltIn"
                    THEN LET value == ApplyBuiltIn(r.res.val.func, r.env, rest, d)
                         IN Out(value.res, value.env, here \o r.log \o value.log)
                    ELSE IF r.res.val.tag = "UserDefined"
                    THEN LET value == Call(r.res.val, r.env, rest, d)
                         IN Out(value.res, value.env, here \o r.log \o value.log)
                    ELSE Out(Err("is not a function"), r.env, here \o r.log)

(***************************************************************************)
(* The expressions the REPL is given.                                      *)
(***************************************************************************)
App(items) == EList(items)
Fn(params, body) == App(<<ESym("fn"), EList(params), body>>)
DefOf(name, e) == App(<<ESym("def"), ESym(name), e>>)

\* (fn (a) (fn () a)): a function returning a closure over its parameter.
MkBody == Fn(<<>>, ESym("a"))
MkFn == Fn(<<ESym("a")>>, MkBody)
\* (fn (a) (def x a)): a function whose body executes a def.
SetXFn == Fn(<<ESym("a")>>, DefOf("x", ESym("a")))
\* (fn () (+ (f 5) x)): a caller of f that reads x after the call.
CallsFFn == Fn(<<>>, App(<<ESym("+"), App(<<ESym("f"), EInt(5)>>), ESym("x")>>))
\* (fn (a 1) a): a parameter list with an entry that is not a symbol.
BadParamsFn == Fn(<<ESym("a"), EInt(1)>>, ESym("a"))
\* (fn () (def + 7)): a function whose body defs a builtin's name.
SetPlusFn == Fn(<<>>, DefOf("+", EInt(7)))
\* (fn (n) (if (< n 1) 0 (cnt (- n 1)))): a function that calls itself.
CountFn ==
  Fn(<<ESym("n")>>,
     App(<<ESym("if"), App(<<ESym("<"), ESym("n"), EInt(1)>>), EInt(0),
           App(<<ESym("cnt"), App(<<ESym("-"), ESym("n"), EInt(1)>>)>>)>>))

SessionDefs ==
  { DefOf("mk", MkFn), DefOf("x", EInt(1)), DefOf("x", EInt(2)),
    DefOf("f", SetXFn), DefOf("h", CallsFFn), DefOf("g", BadParamsFn),
    DefOf("+", EInt(5)), DefOf("k", SetPlusFn), DefOf("cnt", CountFn) }

SessionCalls ==
  { App(<<App(<<ESym("mk"), EInt(1)>>)>>),
    App(<<App(<<ESym("mk"), EInt(2)>>)>>),
    App(<<ESym("f"), EInt(3)>>),
    App(<<ESym("f")>>),
    App(<<ESym("f"), DefOf("x", EInt(3)), EInt(4)>>),
    App(<<Fn(<<ESym("a")>>, ESym("y")), DefOf("y", EInt(4))>>),
    App(<<ESym("h")>>),
    App(<<ESym("g"), DefOf("y", EInt(4)), EInt(5)>>),
    App(<<Fn(<<EInt(1)>>, EInt(2)), EInt(3)>>),
    App(<<ESym("k")>>),
    App(<<ESym("cnt"), EInt(2)>>),
    App(<<ESym("cnt"), EInt(3)>>),
    App(<<ESym("+"), EInt(1), EInt(2)>>),
    BadParamsFn, ESym("x"), ESym("+"), EList(<<>>) }

SessionInputs == SessionDefs \cup SessionCalls

\* Operands of the strict builtins: integers, floats (0.0 and 1.5),
\* booleans, an unbound symbol and a symbol bound to a function value.
Atoms ==
  { EInt(0), EInt(2), EInt(-3), EFloat(FZero(1)), EFloat(<<1, 3, 2>>),
    EBool(TRUE), EBool(FALSE), ESym("qq"), ESym("+") }

RECURSIVE SeqsUpTo(_, _)
SeqsUpTo(S, n) ==
  IF n = 0 THEN {<<>>}
  ELSE LET shorter == SeqsUpTo(S, n - 1)
       IN shorter \cup {Append(q, a) : q \in {t \in shorter : Len(t) = n - 1}, a \in S}

StrictOps == {"=", "+", "-", "*", "/", "<"}

\* (op a1 .. an), 0 <= n <= MaxArgs.
StrictForms == {App(<<ESym(op)>> \o args) : op \in StrictOps, args \in SeqsUpTo(Atoms, MaxArgs)}

\* Conditions and branches of `if` forms: values of each type, failing
\* expressions, a division by zero, and a def.
IfConds ==
  { EBool(TRUE), EBool(FALSE), EInt(1), ESym("qq"),
    App(<<ESym("="), EInt(1), EInt(1)>>), App(<<ESym("<"), EInt(2), EInt(1)>>) }

IfBranches ==
  { EInt(1), ESym("qq"), DefOf("y", EInt(1)),
    App(<<ESym("/"), EInt(1), EInt(0)>>), EList(<<>>) }

\* (if c a b), and `if` forms with 2 and with 4 operands.
IfForms ==
  {App(<<ESym("if"), c, a, b>>) : c \in IfConds, a \in IfBranches, b \in IfBranches}
    \cup {App(<<ESym("if"), c, a>>) : c \in IfConds, a \in IfBranches}
    \cup {App(<<ESym("if"), c, a, a, DefOf("y", EInt(1))>>) : c \in IfConds, a \in IfBranches}

(***************************************************************************)
(* The REPL loop of main.rs: read a line, parse it, evaluate the tree on   *)
(* the session's Env, print the value or the error, and prompt again.      *)
(***************************************************************************)
NoTree == [tag |-> "None"]
NoResult == [kind |-> "None"]

\* Commands::Repl up to the first prompt: env = Env::default().
Init ==
  /\ env = EnvDefault
  /\ before = EnvDefault
  /\ tree = NoTree
  /\ res = NoResult
  /\ log = <<>>
  /\ alive = TRUE
  /\ steps = 0

\* The REPL with its first line read and parsed to one of `forms`.
InitParsed(forms) ==
  /\ env = EnvDefault
  /\ before = EnvDefault
  /\ tree \in forms
  /\ res = NoResult
  /\ log = <<>>
  /\ alive = TRUE
  /\ steps = 0

\* The loop is at its prompt: nothing read yet, or the last result printed.
AtPrompt == (tree.tag = "None") \/ (res.kind # "None")

\* read_line and inst.parse(&script) returning Ok(tree).
Read(e) ==
  /\ alive
  /\ AtPrompt
  /\ steps < MaxSteps
  /\ tree' = e
  /\ res' = NoResult
  /\ log' = <<>>
  /\ before' = env
  /\ steps' = steps + 1
  /\ UNCHANGED <<env, alive>>

\* inst.parse(&script) returning Err: the message is printed, env is untouched.
ParseError ==
  /\ alive
  /\ AtPrompt
  /\ steps < MaxSteps
  /\ tree' = NoTree
  /\ res' = [kind |-> "ParseError"]
  /\ log' = <<>>
  /\ before' = env
  /\ steps' = steps + 1
  /\ UNCHANGED <<env, alive>>

\* env.eval(&tree) and the println! of its Ok or Err.  A panic unwinds out
\* of main and ends the process.  Evaluations that leave the modelled
\* numeric range or call depth are not followed.
Evaluate ==
  /\ alive
  /\ tree.tag # "None"
  /\ res.kind = "None"
  /\ LET r == Eval(tree, env, 0)
     IN /\ r.res.kind # "OutOfRange"
        /\ env' = r.env
        /\ res' = r.res
        /\ log' = r.log
        /\ alive' = (r.res.kind # "Panic")
  /\ UNCHANGED <<before, tree, steps>>

Next ==
  \/ \E e \in SessionInputs : Read(e)
  \/ ParseError
  \/ Evaluate

\* A REPL session over SessionInputs.
Spec == Init /\ [][Next]_vars

\* One evaluation of each strict-builtin form and each `if` form in the
\* default environment.
InitForms == InitParsed(StrictForms \cup IfForms)

NextForms == Evaluate

SpecForms == InitForms /\ [][NextForms]_vars

(***************************************************************************)
(* Properties.  They speak of the evaluation the REPL has just finished:   *)
(* `tree` was evaluated on `before`, giving `res`, `env` and `log`.        *)
(***************************************************************************)
Evaluated == tree.tag # "None" /\ res.kind \in {"Ok", "Err", "Panic"}

IsApplication == tree.tag = "List" /\ tree.items # <<>>
Operator == Head(tree.items)
Operands == Tail(tree.items)

\* The operator of `tree` is a symbol that `before` binds to the native fn func.
HeadIsBuiltIn(func) ==
  /\ IsApplication
  /\ Operator.tag = "Symbol"
  /\ HasKey(before, Operator.name)
  /\ Get(before, Operator.name).tag = "BuiltIn"
  /\ Get(before, Operator.name).func = func

\* What evaluating the operands one after the other, left to right, gives:
\* the i-th is evaluated on the Env the (i-1)-th left.
RECURSIVE EvalSeq(_, _, _)
EvalSeq(args, e, d) ==
  IF args = <<>> THEN <<>>
  ELSE LET o == Eval(Head(args), e, d) IN <<o>> \o EvalSeq(Tail(args), o.env, d)

RECURSIVE LogsUpTo(_, _)
LogsUpTo(outs, n) == IF n = 0 THEN <<>> ELSE LogsUpTo(outs, n - 1) \o outs[n].log

\* The log of an application of a builtin up to its first operand.
BuiltInPrefix == <<EvEval(0, tree), EvEval(0, Operator)>>

TypeErrors ==
  { "Non-boolean found in boolean equals", "Non-integer found in integer equals",
    "Non-float found in float equals", "Non-integer found in integer arithmetic",
    "Non-float found in float arithmetic", "Must apply '+' to numeric types",
    "Must apply '=' to numeric or boolean types",
    "Cannot compare integer with non-integer", "Cannot compare float with non-float",
    "Cannot use value for comparison" }

IsTypeError(r) == r.kind = "Err" /\ r.msg \in TypeErrors

(***************************************************************************)
(* C2.  An `if` form with exactly 3 operands whose condition evaluates to  *)
(* a Bool evaluates the condition and then exactly one branch, the second  *)
(* operand when the condition is true and the third when it is false: the  *)
(* result, the environment and the log of evaluations are those of the     *)
(* condition followed by the taken branch, so the untaken branch is not    *)
(* evaluated, raises no error and leaves no def behind.                    *)
(***************************************************************************)
C2_IfEvaluatesOnlyTakenBranch ==
  (Evaluated /\ HeadIsBuiltIn("ifdef") /\ Len(Operands) = 3) =>
    LET cond == Eval(Operands[1], before, 0)
    IN (IsOk(cond.res) /\ cond.res.val.tag = "Bool") =>
         LET taken == Eval(IF cond.res.val.b THEN Operands[2] ELSE Operands[3],
                           cond.env, 0)
         IN /\ res = taken.res
            /\ env = taken.env
            /\ log = BuiltInPrefix \o cond.log \o taken.log

\* An `if` whose untaken branch would fail or would def a symbol, and whose
\* taken branch gave a value.
C2_Witness ==
  /\ Evaluated
  /\ HeadIsBuiltIn("ifdef")
  /\ Len(Operands) = 3
  /\ Operands[1] = App(<<ESym("<"), EInt(2), EInt(1)>>)
  /\ Operands[2] \in {App(<<ESym("/"), EInt(1), EInt(0)>>), DefOf("y", EInt(1))}
  /\ Operands[3] = EInt(1)
  /\ res.kind = "Ok"
  /\ res.val = VInt(1)
  /\ ~HasKey(env, "y")

C5_LessThanTakesExactlyTwo ==
  (Evaluated /\ HeadIsBuiltIn("less_than") /\ Len(Operands) # 2) => res.kind = "Err"

(***************************************************************************)
(* C8 as stated.  Every evaluation failure is a returned error value: an   *)
(* evaluation ends with a Value or an error, never with the process        *)
(* aborted.                                                                *)
(***************************************************************************)
C8_FailuresAreErrorValues ==
  Evaluated => (res.kind \in {"Ok", "Err"} /\ alive)

\* The left fold of $op over the payloads of vals, from the first value.
RECURSIVE LeftFold(_, _, _, _)
LeftFold(op, ty, acc, vals) ==
  IF vals = <<>> THEN Ok(Scalar(ty, acc))
  ELSE LET r == IF ty = "Integer" THEN IntOp(op, acc, Payload(Head(vals)))
                                  ELSE FloatOp(op, acc, Payload(Head(vals)))
       IN IF IsOk(r) THEN LeftFold(op, ty, Payload(r.val), Tail(vals)) ELSE r

(***************************************************************************)
(* C10 as stated.  Each of + - * / on 1 or more operands evaluates them    *)
(* left to right; when all have the first's numeric type it returns the    *)
(* left fold of the operator from the first value; it fails with a type    *)
(* error when an operand's type differs from the first's or the first is   *)
(* not numeric; and it fails on zero operands.                             *)
(***************************************************************************)
C10_ArithmeticIsLeftFold ==
  (Evaluated /\ IsApplication /\ \E f \in {"addition", "subtraction", "multiplication",
                                            "division"} : HeadIsBuiltIn(f)) =>
    LET func == Get(before, Operator.name).func
        outs == EvalSeq(Operands, before, 0)
        n == Len(outs)
    IN IF n = 0 THEN res.kind = "Err"
       ELSE (\A i \in 1..n : IsOk(outs[i].res)) =>
              LET ty == outs[1].res.val.tag
              IN IF ty \notin {"Integer", "Float"} THEN IsTypeError(res)
                 ELSE IF \E i \in 2..n : outs[i].res.val.tag # ty THEN IsTypeError(res)
                 ELSE LET fold == LeftFold(ArithOp(func), ty, Payload(outs[1].res.val),
                                           [i \in 1..(n - 1) |-> outs[i + 1].res.val])
                      IN /\ res.kind = "Ok"
                         /\ fold.kind = "Ok"
                         /\ res.val = fold.val
                         /\ env = outs[n].env
                         /\ log = BuiltInPrefix \o LogsUpTo(outs, n)

\* The closure a (fn params body) form evaluates to.
ClosureOf(fnform) == UserDefined(fnform.items[2].items, fnform.items[3])

Binds(e, name, value) == HasKey(e, name) /\ Get(e, name) = value

EvalsOf(l) == SelectSeq(l, LAMBDA x : x.k = "eval")
RootInserts(l) == SelectSeq(l, LAMBDA x : x.k = "insert" /\ x.d = 0)

RECURSIVE ApplyInserts(_, _)
ApplyInserts(e, events) ==
  IF events = <<>> THEN e
  ELSE ApplyInserts(Insert(e, Head(events).sym, Head(events).val), Tail(events))

(***************************************************************************)
(* C1 as stated.  The body of a closure runs in a child of the environment *)
(* its `fn` form was evaluated in: with mk = (fn (a) (fn () a)), the call  *)
(* ((mk n)) of the closure that (mk n) returns resolves a to n.            *)
(***************************************************************************)
C1_ClosureResolvesCapturedParameter ==
  (/\ Evaluated
   /\ Binds(before, "mk", ClosureOf(MkFn))
   /\ tree.tag = "List") =>
    \A n \in {1, 2} :
      tree = App(<<App(<<ESym("mk"), EInt(n)>>)>>) => res = Ok(VInt(n))

(***************************************************************************)
(* C3.  A call of a user-defined function with a number of operands other  *)
(* than its number of parameters fails with the arity error; nothing but   *)
(* the operator expression is evaluated (no operand, no body), nothing is  *)
(* bound, and the caller's environment is as the evaluation of the         *)
(* operator left it.                                                       *)
(***************************************************************************)
C3_ArityMismatchEvaluatesNothing ==
  (Evaluated /\ IsApplication) =>
    LET o == Eval(Operator, before, 0)
    IN (/\ IsOk(o.res)
        /\ o.res.val.tag = "UserDefined"
        /\ Len(o.res.val.params) # Len(Operands)) =>
         /\ res = Err("Incorrect number of arguments provided")
         /\ log = <<EvEval(0, tree)>> \o o.log
         /\ env = o.env

\* f, a function of one parameter, was called with two operands, the first
\* of them a def: the call failed and the def did not happen.
C3_Witness ==
  /\ Evaluated
  /\ Binds(before, "f", ClosureOf(SetXFn))
  /\ tree = App(<<ESym("f"), DefOf("x", EInt(3)), EInt(4)>>)
  /\ res.kind = "Err"
  /\ ~Binds(env, "x", VInt(3))

C7_DefBindsOnlyItsOwnFrame ==
  Evaluated =>
    /\ Len(env) = 1
    /\ env = ApplyInserts(before, RootInserts(log))
    /\ (/\ HeadIsBuiltIn("def")
        /\ Len(Operands) = 2
        /\ Operands[1].tag = "Symbol"
        /\ IsOk(Eval(Operands[2], before, 0).res)) =>
         /\ res.kind = "Ok"
         /\ Eval(Operands[1], env, 0).res = Eval(Operands[2], before, 0).res
    /\ (/\ tree = App(<<ESym("h")>>)
        /\ Binds(before, "h", ClosureOf(CallsFFn))
        /\ Binds(before, "f", ClosureOf(SetXFn))
        /\ Binds(before, "+", Builtins["+"])) =>
         IF HasKey(before, "x")
         THEN res.kind = "Ok" /\ res.val = Get(before, "x")
         ELSE res = Err("Unknown symbol")

\* f's body executed (def x ..) in its call frame while the caller bound x
\* to another value, and the call returned.
C7_Witness ==
  /\ Evaluated
  /\ res.kind = "Ok"
  /\ HasKey(before, "x")
  /\ \E i \in 1..Len(log) :
       /\ log[i].k = "insert"
       /\ log[i].d >= 1
       /\ log[i].sym = "x"
       /\ log[i].val # Get(before, "x")
  /\ Get(env, "x") = Get(before, "x")

BuiltinNames == DOMAIN Builtins

====
